---------------------------- MODULE Spec2Model ----------------------------
(***************************************************************************)
(* Model of pxr/imaging/hdSt/textureUtils.cpp: the format selector         *)
(* HdStTextureUtils::GetHgiFormat and the pixel transformers it hands out  *)
(* (_ConvertRGBToRGBA, _PremultiplyAlpha, _PremultiplyAlphaFloat).         *)
(*                                                                         *)
(* A behaviour is one texture load: the caller asks GetHgiFormat for the   *)
(* target format and the conversion function, and, when one was selected,  *)
(* invokes it on a source buffer, one source statement per step.           *)
(***************************************************************************)
EXTENDS Integers, Sequences, FiniteSets, TLC

VARIABLES
    hioFormat,                  \* argument of GetHgiFormat
    premultiplyAlpha,           \* argument of GetHgiFormat
    avoidThreeComponentFormats, \* argument of GetHgiFormat
    conversionFunction,         \* the caller's slot behind the out-parameter
    hgiFormat,                  \* value returned by GetHgiFormat
    diagnostic,                 \* TF_WARN / TF_CODING_ERROR issued by the call
    pc,                         \* position in the code
    mem,                        \* the memory the buffers live in
    src, dst, numTexels,        \* arguments of the conversion function
    i, j, alpha,                \* locals of the conversion function
    ubValue,                    \* what an out-of-range float->T conversion yields
    orig,                       \* contents of the source buffer before the first call
    call,                       \* number of invocations of the conversion function
    srcRead, dstWritten,        \* element indices read from typedSrc / written to typedDst
    iterations                  \* loop bodies entered by the current invocation

vars == <<hioFormat, premultiplyAlpha, avoidThreeComponentFormats,
          conversionFunction, hgiFormat, diagnostic, pc, mem, src, dst,
          numTexels, i, j, alpha, ubValue, orig, call, srcRead, dstWritten,
          iterations>>

(***************************************************************************)
(* Bounds of the model.                                                    *)
(***************************************************************************)
MaxTexels == 3

(***************************************************************************)
(* Element types and std::numeric_limits.                                  *)
(***************************************************************************)
is_integer(T) == T \in {"unsigned char", "signed char", "uint16_t", "int32_t"}

numeric_limits_max(T) ==
    CASE T = "unsigned char" -> 255
      [] T = "signed char"   -> 127
      [] T = "uint16_t"      -> 65535
      [] T = "int32_t"       -> 2147483647

numeric_limits_min(T) ==
    CASE T = "unsigned char" -> 0
      [] T = "signed char"   -> -128
      [] T = "uint16_t"      -> 0
      [] T = "int32_t"       -> -2147483647 - 1

(***************************************************************************)
(* IEEE-754 binary32 arithmetic, as the build performs the float           *)
(* operations of the premultiply routines.  A finite float is the record   *)
(* [k |-> "num", s, m, e] of value (-1)^s * m * 2^e with 2^23 <= m < 2^24, *)
(* or m = 0 for zero.  Results are rounded to nearest, ties to even.       *)
(* GfHalf values are the floats with 11 significant bits.                  *)
(***************************************************************************)
Pow2(n) == 2^n

\* Number of significant bits of n >= 0.
BitLen4(n) == IF n < 4 THEN (IF n < 2 THEN n ELSE 2) ELSE (IF n < 8 THEN 3 ELSE 4)
BitLen8(n) == IF n < 16 THEN BitLen4(n) ELSE 4 + BitLen4(n \div 16)
BitLen16(n) == IF n < 256 THEN BitLen8(n) ELSE 8 + BitLen8(n \div 256)
BitLen(n) == IF n < 65536 THEN BitLen16(n) ELSE 16 + BitLen16(n \div 65536)

FZero == [k |-> "num", s |-> 0, m |-> 0, e |-> 0]

\* The float of value n * 2^e, for 0 <= n <= 2^24 (no rounding needed).
FNorm(s, n, e) ==
    IF n = 0 THEN FZero
    ELSE LET b == BitLen(n) IN
         IF b <= 24
         THEN [k |-> "num", s |-> s, m |-> n * Pow2(24 - b), e |-> e - (24 - b)]
         ELSE [k |-> "num", s |-> s, m |-> n \div Pow2(b - 24), e |-> e + (b - 24)]

\* (n + f) * 2^e rounded to P significant bits, where 0 < f < 1 if sticky
\* and f = 0 otherwise.
FRound(s, n, e, sticky, P) ==
    LET sh == BitLen(n) - P IN
    IF sh <= 0 THEN FNorm(s, n, e)
    ELSE LET q    == n \div Pow2(sh)
             r    == n % Pow2(sh)
             half == Pow2(sh - 1)
             up   == r > half \/ (r = half /\ (sticky \/ q % 2 = 1))
         IN  FNorm(s, IF up THEN q + 1 ELSE q, e + sh)

\* static_cast<float>(n) for an integer n of any of the element types.
IntToFloat(n) ==
    IF n = -2147483647 - 1 THEN [k |-> "num", s |-> 1, m |-> Pow2(23), e |-> 8]
    ELSE LET s   == IF n < 0 THEN 1 ELSE 0
             mag == IF n < 0 THEN 0 - n ELSE n
         IN  IF mag < Pow2(30) THEN FRound(s, mag, 0, FALSE, 24)
             ELSE FRound(s, mag \div 2, 1, mag % 2 = 1, 24)

RECURSIVE DivBits(_, _, _, _)
\* nbits further quotient bits of r / d (r < d): <<quotient, remainder>>.
DivBits(r, d, nbits, acc) ==
    IF nbits = 0 THEN <<acc, r>>
    ELSE IF 2 * r >= d THEN DivBits(2 * r - d, d, nbits - 1, 2 * acc + 1)
         ELSE DivBits(2 * r, d, nbits - 1, 2 * acc)

FDivNum(x, y, P) ==
    IF x.m = 0 THEN FZero
    ELSE LET qr == DivBits(x.m % y.m, y.m, 26, x.m \div y.m)
         IN  FRound((x.s + y.s) % 2, qr[1], x.e - y.e - 26, qr[2] # 0, P)

FMulNum(x, y, P) ==
    IF x.m = 0 \/ y.m = 0 THEN FZero
    ELSE LET xh == x.m \div 4096  xl == x.m % 4096
             yh == y.m \div 4096  yl == y.m % 4096
             mid == xh * yl + xl * yh
             low == (mid % 4096) * 4096 + xl * yl
             lo  == low % Pow2(24)
             hi  == xh * yh + mid \div 4096 + low \div Pow2(24)
         IN  FRound((x.s + y.s) % 2, hi * 4 + lo \div Pow2(22),
                    x.e + y.e + 22, lo % Pow2(22) # 0, P)

FAddNum(x, y, P) ==
    IF x.m = 0 THEN y
    ELSE IF y.m = 0 THEN x
    ELSE LET xBig == x.e > y.e \/ (x.e = y.e /\ x.m >= y.m)
             a == IF xBig THEN x ELSE y
             b == IF xBig THEN y ELSE x
             d == a.e - b.e
             bm == IF d > 27 THEN 0 ELSE (b.m * 8) \div Pow2(d)
             st == IF d > 27 THEN TRUE ELSE (b.m * 8) % Pow2(d) # 0
             n == IF a.s = b.s THEN a.m * 8 + bm
                  ELSE a.m * 8 - bm - (IF st THEN 1 ELSE 0)
         IN  FRound(a.s, n, a.e - 3, st, P)

\* The integer part of x (rounding toward zero) when it is below 2^31 in
\* magnitude.
FTrunc(x) ==
    LET mag == IF x.e >= 0 THEN x.m * Pow2(x.e)
               ELSE IF 0 - x.e >= 24 THEN 0 ELSE x.m \div Pow2(0 - x.e)
    IN  IF x.s = 1 THEN 0 - mag ELSE mag

(***************************************************************************)
(* Buffer elements.  An element of an integer type T is [k |-> "int", v],  *)
(* an element of a floating-point type is a float record.  The results of  *)
(* _ConvertColorSpace, which evaluates pow in double precision, are kept   *)
(* as unevaluated applications [k |-> "sym", t]: the function is pure, so  *)
(* equal applications denote equal values.                                 *)
(***************************************************************************)
IntElem(n) == [k |-> "int", v |-> n]

Sym(t) == [k |-> "sym", t |-> t]

FOne == IntToFloat(1)

\* Significant bits of the floating-point element types.
Precision(T) == IF T = "GfHalf" THEN 11 ELSE 24

\* static_cast<float>(el) of an element of an integer type.
ToFloat(el) == IF el.k = "int" THEN IntToFloat(el.v) ELSE Sym(<<"float", el>>)

FDiv(x, y) ==
    IF x.k = "num" /\ y.k = "num" THEN FDivNum(x, y, 24) ELSE Sym(<<"/", x, y>>)

FMul(x, y) ==
    IF x.k = "num" /\ y.k = "num" THEN FMulNum(x, y, 24) ELSE Sym(<<"*", x, y>>)

FAdd(x, y) ==
    IF x.k = "num" /\ y.k = "num" THEN FAddNum(x, y, 24) ELSE Sym(<<"+", x, y>>)

\* Conversion of the float x to the integer type T on assignment: the value
\* truncated toward zero when T can represent it; otherwise the behaviour
\* is undefined and the build yields ub.
FloatToT(T, x, ub) ==
    IF x.k # "num" THEN Sym(<<T, x>>)
    ELSE IF x.e >= 8
         THEN IF T = "int32_t" /\ x.s = 1 /\ x.e = 8 /\ x.m = Pow2(23)
              THEN IntElem(numeric_limits_min(T)) ELSE IntElem(ub)
         ELSE LET t == FTrunc(x) IN
              IF numeric_limits_min(T) <= t /\ t <= numeric_limits_max(T)
              THEN IntElem(t) ELSE IntElem(ub)

\* Faulty variant of _OpaqueAlpha: 1 for every element type.
OpaqueAlphaOne(T) ==
    IF is_integer(T) THEN IntElem(1) ELSE FOne

_OpaqueAlpha(T) ==
    IF is_integer(T) THEN IntElem(numeric_limits_max(T)) ELSE FOne

_ConvertColorSpace(colorSpaceTransform, in) ==
    Sym(<<"_ConvertColorSpace", colorSpaceTransform, in>>)

(***************************************************************************)
(* Conversion functions (values of HdStTextureUtils::ConversionFunction).  *)
(***************************************************************************)
nullptr == [fn |-> "nullptr", T |-> "void", isSRGB |-> FALSE]

_ConvertRGBToRGBA(T) == [fn |-> "_ConvertRGBToRGBA", T |-> T, isSRGB |-> FALSE]

_PremultiplyAlpha(T, isSRGB) == [fn |-> "_PremultiplyAlpha", T |-> T, isSRGB |-> isSRGB]

_PremultiplyAlphaFloat(T) == [fn |-> "_PremultiplyAlphaFloat", T |-> T, isSRGB |-> FALSE]

(***************************************************************************)
(* HdStTextureUtils::GetHgiFormat.  A result is the returned HgiFormat,    *)
(* the contents of *conversionFunction after the call (slot is its         *)
(* contents before the call) and the diagnostic issued.                    *)
(***************************************************************************)
HioFormats ==
    { "HioFormatUNorm8", "HioFormatUNorm8Vec2", "HioFormatUNorm8Vec3", "HioFormatUNorm8Vec4",
      "HioFormatSNorm8", "HioFormatSNorm8Vec2", "HioFormatSNorm8Vec3", "HioFormatSNorm8Vec4",
      "HioFormatFloat16", "HioFormatFloat16Vec2", "HioFormatFloat16Vec3", "HioFormatFloat16Vec4",
      "HioFormatFloat32", "HioFormatFloat32Vec2", "HioFormatFloat32Vec3", "HioFormatFloat32Vec4",
      "HioFormatDouble64", "HioFormatDouble64Vec2", "HioFormatDouble64Vec3", "HioFormatDouble64Vec4",
      "HioFormatUInt16", "HioFormatUInt16Vec2", "HioFormatUInt16Vec3", "HioFormatUInt16Vec4",
      "HioFormatInt16", "HioFormatInt16Vec2", "HioFormatInt16Vec3", "HioFormatInt16Vec4",
      "HioFormatUInt32", "HioFormatUInt32Vec2", "HioFormatUInt32Vec3", "HioFormatUInt32Vec4",
      "HioFormatInt32", "HioFormatInt32Vec2", "HioFormatInt32Vec3", "HioFormatInt32Vec4",
      "HioFormatUNorm8srgb", "HioFormatUNorm8Vec2srgb", "HioFormatUNorm8Vec3srgb",
      "HioFormatUNorm8Vec4srgb",
      "HioFormatBC6FloatVec3", "HioFormatBC6UFloatVec3", "HioFormatBC7UNorm8Vec4",
      "HioFormatBC7UNorm8Vec4srgb", "HioFormatBC1UNorm8Vec4", "HioFormatBC3UNorm8Vec4",
      "HioFormatInvalid", "HioFormatCount" }

\* A value of type HioFormat that is none of the enumerators.
HioFormatOutOfRange == "HioFormat(-2)"

\* return fmt;  with *conversionFunction left as it was
Return(fmt, slot) ==
    [format |-> fmt, conversionFunction |-> slot, diagnostic |-> "none"]

\* *conversionFunction = _ConvertRGBToRGBA<T>; return fmt4;
AlwaysConvert(T, fmt4) ==
    [format |-> fmt4, conversionFunction |-> _ConvertRGBToRGBA(T), diagnostic |-> "none"]

\* Faulty variant of ConvertIfAvoiding: the flag is not consulted.
ConvertNever(T, fmt3, fmt4, avoid, slot) == Return(fmt3, slot)

\* if (avoidThreeComponentFormats) { *conversionFunction =
\*     _ConvertRGBToRGBA<T>; return fmt4; } return fmt3;
ConvertIfAvoiding(T, fmt3, fmt4, avoid, slot) ==
    IF avoid
    THEN [format |-> fmt4, conversionFunction |-> _ConvertRGBToRGBA(T), diagnostic |-> "none"]
    ELSE Return(fmt3, slot)

\* Faulty variant of PremultiplyIfAsked: the flag is not consulted.
PremultiplyAlways(fn, fmt4, premultiply, slot) ==
    [format |-> fmt4, conversionFunction |-> fn, diagnostic |-> "none"]

\* if (premultiplyAlpha) { *conversionFunction = fn; } return fmt4;
PremultiplyIfAsked(fn, fmt4, premultiply, slot) ==
    [format |-> fmt4,
     conversionFunction |-> IF premultiply THEN fn ELSE slot,
     diagnostic |-> "none"]

\* Faulty variant of NotSupported: a conversion function is stored before
\* the failure is reported.
NotSupportedStoring(slot) ==
    [format |-> "HgiFormatInvalid",
     conversionFunction |-> _ConvertRGBToRGBA("unsigned char"),
     diagnostic |-> "TF_WARN"]

\* TF_WARN(...); return HgiFormatInvalid;
NotSupported(slot) ==
    [format |-> "HgiFormatInvalid", conversionFunction |-> slot, diagnostic |-> "TF_WARN"]

\* TF_CODING_ERROR(...); return HgiFormatInvalid;
CodingError(slot) ==
    [format |-> "HgiFormatInvalid", conversionFunction |-> slot,
     diagnostic |-> "TF_CODING_ERROR"]

GetHgiFormatResult(fmt, premultiply, avoid, slot) ==
    CASE fmt = "HioFormatUNorm8"     -> Return("HgiFormatUNorm8", slot)
      [] fmt = "HioFormatUNorm8Vec2" -> Return("HgiFormatUNorm8Vec2", slot)
      [] fmt = "HioFormatUNorm8Vec3" -> AlwaysConvert("unsigned char", "HgiFormatUNorm8Vec4")
      [] fmt = "HioFormatUNorm8Vec4" ->
            PremultiplyIfAsked(_PremultiplyAlpha("unsigned char", FALSE),
                               "HgiFormatUNorm8Vec4", premultiply, slot)
      [] fmt = "HioFormatSNorm8"     -> Return("HgiFormatSNorm8", slot)
      [] fmt = "HioFormatSNorm8Vec2" -> Return("HgiFormatSNorm8Vec2", slot)
      [] fmt = "HioFormatSNorm8Vec3" -> AlwaysConvert("signed char", "HgiFormatSNorm8Vec4")
      [] fmt = "HioFormatSNorm8Vec4" ->
            PremultiplyIfAsked(_PremultiplyAlpha("signed char", FALSE),
                               "HgiFormatSNorm8Vec4", premultiply, slot)
      [] fmt = "HioFormatFloat16"     -> Return("HgiFormatFloat16", slot)
      [] fmt = "HioFormatFloat16Vec2" -> Return("HgiFormatFloat16Vec2", slot)
      [] fmt = "HioFormatFloat16Vec3" ->
            ConvertIfAvoiding("GfHalf", "HgiFormatFloat16Vec3", "HgiFormatFloat16Vec4",
                              avoid, slot)
      [] fmt = "HioFormatFloat16Vec4" ->
            PremultiplyIfAsked(_PremultiplyAlphaFloat("GfHalf"),
                               "HgiFormatFloat16Vec4", premultiply, slot)
      [] fmt = "HioFormatFloat32"     -> Return("HgiFormatFloat32", slot)
      [] fmt = "HioFormatFloat32Vec2" -> Return("HgiFormatFloat32Vec2", slot)
      [] fmt = "HioFormatFloat32Vec3" ->
            ConvertIfAvoiding("float", "HgiFormatFloat32Vec3", "HgiFormatFloat32Vec4",
                              avoid, slot)
      [] fmt = "HioFormatFloat32Vec4" ->
            PremultiplyIfAsked(_PremultiplyAlphaFloat("float"),
                               "HgiFormatFloat32Vec4", premultiply, slot)
      [] fmt \in {"HioFormatDouble64", "HioFormatDouble64Vec2",
                  "HioFormatDouble64Vec3", "HioFormatDouble64Vec4"} -> NotSupported(slot)
      [] fmt = "HioFormatUInt16"     -> Return("HgiFormatUInt16", slot)
      [] fmt = "HioFormatUInt16Vec2" -> Return("HgiFormatUInt16Vec2", slot)
      [] fmt = "HioFormatUInt16Vec3" ->
            ConvertIfAvoiding("uint16_t", "HgiFormatUInt16Vec3", "HgiFormatUInt16Vec4",
                              avoid, slot)
      [] fmt = "HioFormatUInt16Vec4" ->
            PremultiplyIfAsked(_PremultiplyAlpha("uint16_t", FALSE),
                               "HgiFormatUInt16Vec4", premultiply, slot)
      [] fmt \in {"HioFormatInt16", "HioFormatInt16Vec2",
                  "HioFormatInt16Vec3", "HioFormatInt16Vec4"} -> NotSupported(slot)
      [] fmt \in {"HioFormatUInt32", "HioFormatUInt32Vec2",
                  "HioFormatUInt32Vec3", "HioFormatUInt32Vec4"} -> NotSupported(slot)
      [] fmt = "HioFormatInt32"     -> Return("HgiFormatInt32", slot)
      [] fmt = "HioFormatInt32Vec2" -> Return("HgiFormatInt32Vec2", slot)
      [] fmt = "HioFormatInt32Vec3" ->
            ConvertIfAvoiding("int32_t", "HgiFormatInt32Vec3", "HgiFormatInt32Vec4",
                              avoid, slot)
      [] fmt = "HioFormatInt32Vec4" ->
            PremultiplyIfAsked(_PremultiplyAlpha("int32_t", FALSE),
                               "HgiFormatInt32Vec4", premultiply, slot)
      [] fmt \in {"HioFormatUNorm8srgb", "HioFormatUNorm8Vec2srgb"} -> NotSupported(slot)
      [] fmt = "HioFormatUNorm8Vec3srgb" ->
            AlwaysConvert("unsigned char", "HgiFormatUNorm8Vec4srgb")
      [] fmt = "HioFormatUNorm8Vec4srgb" ->
            PremultiplyIfAsked(_PremultiplyAlpha("unsigned char", TRUE),
                               "HgiFormatUNorm8Vec4srgb", premultiply, slot)
      [] fmt = "HioFormatBC6FloatVec3"      -> Return("HgiFormatBC6FloatVec3", slot)
      [] fmt = "HioFormatBC6UFloatVec3"     -> Return("HgiFormatBC6UFloatVec3", slot)
      [] fmt = "HioFormatBC7UNorm8Vec4"     -> Return("HgiFormatBC7UNorm8Vec4", slot)
      [] fmt = "HioFormatBC7UNorm8Vec4srgb" -> Return("HgiFormatBC7UNorm8Vec4srgb", slot)
      [] fmt = "HioFormatBC1UNorm8Vec4"     -> Return("HgiFormatBC1UNorm8Vec4", slot)
      [] fmt = "HioFormatBC3UNorm8Vec4"     -> Return("HgiFormatBC3UNorm8Vec4", slot)
      [] fmt = "HioFormatInvalid"           -> Return("HgiFormatInvalid", slot)
      [] fmt = "HioFormatCount"             -> CodingError(slot)
      [] OTHER                              -> CodingError(slot)

(***************************************************************************)
(* Memory.  Address a is mem[a + 1]; typedSrc[n] is the element at address *)
(* src + n and typedDst[n] the element at address dst + n.                 *)
(***************************************************************************)
Load(heap, a) == heap[a + 1]

Store(heap, a, el) == [heap EXCEPT ![a + 1] = el]

\* size_t is unsigned: arithmetic on it wraps.  The one operation of the code
\* that can wrap is the post-decrement of line 56; the model's size_t has
\* 2^30 values, TLC's integers being narrower than the platform's 64 bits.
SizeModulus == Pow2(30)

\* i-- on a size_t: the value of i after the decrement.
Decrement(n) == (n + SizeModulus - 1) % SizeModulus

(***************************************************************************)
(* The buffers a caller passes.  The source region holds 4 * numTexels     *)
(* elements at address 0 (the packed texels first, so that it can be       *)
(* converted in place); a separate destination of 4 * numTexels elements   *)
(* follows it.  Memory the caller has not filled holds Filler.             *)
(***************************************************************************)
Elem(T, n) == IF is_integer(T) THEN IntElem(n) ELSE FRound(0, n, 0, FALSE, Precision(T))

Filler(T) == Elem(T, 99)

\* Contents for the channel expansion: 3 * n elements start + step * k.
Ramps == { <<0, 10>>, <<0, 1>>, <<7, 0>> }

RGBContents(T, n) ==
    { [k \in 1..(3 * n) |-> Elem(T, r[1] + r[2] * k)] : r \in Ramps }

\* The float nearest to num / den, in the precision of T.
Ratio(T, num, den) ==
    LET q == FDivNum(IntToFloat(IF num < 0 THEN 0 - num ELSE num), IntToFloat(den),
                     Precision(T))
    IN  IF num < 0 /\ q.m # 0 THEN [q EXCEPT !.s = 1] ELSE q

\* Texels <<c0, c1, c2, a>> for the premultiply routines.
RGBATexels(T) ==
    CASE T = "unsigned char" ->
            { <<255, 128, 0, 128>>, <<10, 20, 30, 255>>, <<200, 3, 77, 0>> }
      [] T = "signed char" ->
            { <<-128, -127, 100, -128>>, <<100, -50, 0, -1>>, <<127, 64, -64, 127>> }
      [] T = "uint16_t" ->
            { <<65535, 32768, 0, 32768>>, <<1000, 2, 3, 65535>>, <<7, 65535, 1, 0>> }
      [] T = "int32_t" ->
            { <<2147483647, 1, 0, 2147483647>>, <<-2147483647 - 1, -1, 1000, -1>>,
              <<5, 16777217, -7, -2147483647 - 1>> }
      [] OTHER ->
            { <<8, 4, 2, 5>>, <<10, 20, 30, 10>>, <<15, -20, 0, 3>> }

TexelElems(T, t) ==
    IF is_integer(T) THEN [c \in 1..4 |-> IntElem(t[c])]
    ELSE [c \in 1..4 |-> Ratio(T, t[c], 10)]

RECURSIVE RGBAContents(_, _)
RGBAContents(T, n) ==
    IF n = 0 THEN { <<>> }
    ELSE { b \o TexelElems(T, t) : b \in RGBAContents(T, n - 1), t \in RGBATexels(T) }

Contents(cf, n) ==
    IF cf.fn = "_ConvertRGBToRGBA" THEN RGBContents(cf.T, n) ELSE RGBAContents(cf.T, n)

\* What the build makes of a float->T conversion whose value T cannot
\* represent (undefined behaviour): some value of T, the same one throughout
\* a run.
UbOutcomes(cf) ==
    IF cf.fn = "_PremultiplyAlpha" /\ cf.T \in {"signed char", "int32_t"}
    THEN { numeric_limits_min(cf.T), 1 }
    ELSE { 0 }

Heap(T, content, n) ==
    content \o [k \in 1..(8 * n - Len(content)) |-> Filler(T)]

EntryLabel(cf) ==
    CASE cf.fn = "_ConvertRGBToRGBA"      -> "RGBA_54"
      [] cf.fn = "_PremultiplyAlpha"      -> "PA_104"
      [] cf.fn = "_PremultiplyAlphaFloat" -> "PAF_149"

(***************************************************************************)
(* The texture load.                                                       *)
(***************************************************************************)
selection == <<hioFormat, premultiplyAlpha, avoidThreeComponentFormats,
               conversionFunction, hgiFormat, diagnostic>>

arguments == <<src, dst, numTexels, ubValue, orig, call>>

\* The template argument T of the selected conversion function.
ElemType == conversionFunction.T

\* What the caller's ConversionFunction variable holds when its address is
\* passed to GetHgiFormat: callers start from no transformation.
CallerSlot == nullptr

Init ==
    /\ hioFormat \in HioFormats \cup {HioFormatOutOfRange}
    /\ premultiplyAlpha \in BOOLEAN
    /\ avoidThreeComponentFormats \in BOOLEAN
    /\ conversionFunction = CallerSlot
    /\ hgiFormat = "none"
    /\ diagnostic = "none"
    /\ pc = "start"
    /\ mem = <<>>
    /\ src = 0 /\ dst = 0 /\ numTexels = 0
    /\ i = 0 /\ j = 0 /\ alpha = FZero
    /\ ubValue = 0
    /\ orig = <<>>
    /\ call = 0
    /\ srcRead = {} /\ dstWritten = {}
    /\ iterations = 0

\* The caller's call of HdStTextureUtils::GetHgiFormat.
GetHgiFormat ==
    /\ pc = "start"
    /\ LET r == GetHgiFormatResult(hioFormat, premultiplyAlpha,
                                   avoidThreeComponentFormats, conversionFunction)
       IN  /\ hgiFormat' = r.format
           /\ conversionFunction' = r.conversionFunction
           /\ diagnostic' = r.diagnostic
    /\ pc' = "selected"
    /\ UNCHANGED <<hioFormat, premultiplyAlpha, avoidThreeComponentFormats, mem,
                   src, dst, numTexels, i, j, alpha, ubValue, orig, call,
                   srcRead, dstWritten, iterations>>

\* The caller invokes the selected conversion function on a source buffer,
\* converting in place (dst = src) or into the separate destination.
Invoke ==
    /\ pc = "selected"
    /\ conversionFunction # nullptr
    /\ \E n \in 0..MaxTexels, inPlace \in BOOLEAN, ub \in UbOutcomes(conversionFunction) :
         \E content \in Contents(conversionFunction, n) :
            /\ mem' = Heap(ElemType, content, n)
            /\ orig' = mem'
            /\ numTexels' = n
            /\ src' = 0
            /\ dst' = IF inPlace THEN 0 ELSE 4 * n
            /\ ubValue' = ub
    /\ call' = 1
    /\ pc' = EntryLabel(conversionFunction)
    /\ srcRead' = {} /\ dstWritten' = {} /\ iterations' = 0
    /\ UNCHANGED <<selection, i, j, alpha>>

\* After a conversion into the separate destination, the caller converts the
\* same source once more, this time in place.
InvokeInPlace ==
    /\ pc = "returned"
    /\ call = 1
    /\ dst # src
    /\ dst' = src
    /\ call' = 2
    /\ pc' = EntryLabel(conversionFunction)
    /\ srcRead' = {} /\ dstWritten' = {} /\ iterations' = 0
    /\ UNCHANGED <<selection, mem, src, numTexels, ubValue, orig, i, j, alpha>>

(***************************************************************************)
(* _ConvertRGBToRGBA<T>(src, numTexels, dst), lines 42-62.                *)
(***************************************************************************)
\* size_t i = numTexels;
RGBA_54 ==
    /\ pc = "RGBA_54"
    /\ i' = numTexels
    /\ pc' = "RGBA_56"
    /\ UNCHANGED <<selection, arguments, mem, j, alpha, srcRead, dstWritten, iterations>>

\* Faulty variant of RGBA_56: while (i-- > 1), one iteration short.
RGBA_56_Short ==
    /\ pc = "RGBA_56"
    /\ i' = Decrement(i)
    /\ IF i > 1
       THEN pc' = "RGBA_57" /\ iterations' = iterations + 1
       ELSE pc' = "returned" /\ UNCHANGED iterations
    /\ UNCHANGED <<selection, arguments, mem, j, alpha, srcRead, dstWritten>>

\* while (i--)
RGBA_56 ==
    /\ pc = "RGBA_56"
    /\ i' = Decrement(i)
    /\ IF i # 0
       THEN pc' = "RGBA_57" /\ iterations' = iterations + 1
       ELSE pc' = "returned" /\ UNCHANGED iterations
    /\ UNCHANGED <<selection, arguments, mem, j, alpha, srcRead, dstWritten>>

\* typedDst[4 * i + c] = typedSrc[3 * i + c];
CopyChannel(c, next) ==
    /\ mem' = Store(mem, dst + 4 * i + c, Load(mem, src + 3 * i + c))
    /\ srcRead' = srcRead \cup {3 * i + c}
    /\ dstWritten' = dstWritten \cup {4 * i + c}
    /\ pc' = next
    /\ UNCHANGED <<selection, arguments, i, j, alpha, iterations>>

RGBA_57 == pc = "RGBA_57" /\ CopyChannel(0, "RGBA_58")

RGBA_58 == pc = "RGBA_58" /\ CopyChannel(1, "RGBA_59")

RGBA_59 == pc = "RGBA_59" /\ CopyChannel(2, "RGBA_60")

\* typedDst[4 * i + 3] = _OpaqueAlpha<T>();
RGBA_60 ==
    /\ pc = "RGBA_60"
    /\ mem' = Store(mem, dst + 4 * i + 3, _OpaqueAlpha(ElemType))
    /\ dstWritten' = dstWritten \cup {4 * i + 3}
    /\ pc' = "RGBA_56"
    /\ UNCHANGED <<selection, arguments, i, j, alpha, srcRead, iterations>>

(***************************************************************************)
(* _PremultiplyAlpha<T, isSRGB>(src, numTexels, dst), lines 93-135.       *)
(***************************************************************************)
\* constexpr float max = static_cast<float>(std::numeric_limits<T>::max());
MaxFloat(T) == IntToFloat(numeric_limits_max(T))

\* 0.5f
FHalf == FDivNum(IntToFloat(1), IntToFloat(2), 24)

\* Faulty variant of AlphaRatio: the division by max is missing.
AlphaUnscaled(T, a) == ToFloat(a)

\* const float alpha = static_cast<float>(typedSrc[4 * i + 3]) / max;
AlphaRatio(T, a) == FDiv(ToFloat(a), MaxFloat(T))

\* Faulty variant of PremultiplyChannel (isSRGB false): the product is
\* truncated without the 0.5f added.
PremultiplyChannelTruncating(T, isSRGB, c, al, ub) ==
    FloatToT(T, FMul(ToFloat(c), al), ub)

\* Lines 114-130: the value stored to typedDst[4 * i + j] for the colour
\* element c = typedSrc[4 * i + j].
PremultiplyChannel(T, isSRGB, c, al, ub) ==
    LET p0 == ToFloat(c)
        p1 == IF isSRGB
              THEN FMul(MaxFloat(T), _ConvertColorSpace("_SRGBToLinear", FDiv(p0, MaxFloat(T))))
              ELSE p0
        p2 == FMul(p1, al)
        p3 == IF isSRGB
              THEN FMul(MaxFloat(T), _ConvertColorSpace("_LinearToSRGB", FDiv(p2, MaxFloat(T))))
              ELSE p2
    IN  FloatToT(T, FAdd(p3, FHalf), ub)

\* for (size_t i = 0; ...
PA_104 ==
    /\ pc = "PA_104"
    /\ i' = 0
    /\ pc' = "PA_110"
    /\ UNCHANGED <<selection, arguments, mem, j, alpha, srcRead, dstWritten, iterations>>

\* ... i < numTexels; ...
PA_110 ==
    /\ pc = "PA_110"
    /\ IF i < numTexels
       THEN pc' = "PA_111" /\ iterations' = iterations + 1
       ELSE pc' = "returned" /\ UNCHANGED iterations
    /\ UNCHANGED <<selection, arguments, mem, i, j, alpha, srcRead, dstWritten>>

\* const float alpha = static_cast<float>(typedSrc[4 * i + 3]) / max;
PA_111 ==
    /\ pc = "PA_111"
    /\ alpha' = AlphaRatio(ElemType, Load(mem, src + 4 * i + 3))
    /\ srcRead' = srcRead \cup {4 * i + 3}
    /\ j' = 0
    /\ pc' = "PA_113"
    /\ UNCHANGED <<selection, arguments, mem, i, dstWritten, iterations>>

\* for (size_t j = 0; j < 3; j++) { ... typedDst[4 * i + j] = p + 0.5f; }
PA_113 ==
    /\ pc = "PA_113"
    /\ j < 3
    /\ mem' = Store(mem, dst + 4 * i + j,
                    PremultiplyChannel(ElemType, conversionFunction.isSRGB,
                                       Load(mem, src + 4 * i + j), alpha, ubValue))
    /\ srcRead' = srcRead \cup {4 * i + j}
    /\ dstWritten' = dstWritten \cup {4 * i + j}
    /\ j' = j + 1
    /\ pc' = IF j + 1 < 3 THEN "PA_113" ELSE "PA_133"
    /\ UNCHANGED <<selection, arguments, i, alpha, iterations>>

\* Faulty variant of PA_133: the alpha element is not copied.
PA_133_NoCopy ==
    /\ pc = "PA_133"
    /\ i' = i + 1
    /\ pc' = "PA_110"
    /\ UNCHANGED <<selection, arguments, mem, j, alpha, srcRead, dstWritten, iterations>>

\* typedDst[4 * i + 3] = typedSrc[4 * i + 3];  and i++
PA_133 ==
    /\ pc = "PA_133"
    /\ mem' = Store(mem, dst + 4 * i + 3, Load(mem, src + 4 * i + 3))
    /\ srcRead' = srcRead \cup {4 * i + 3}
    /\ dstWritten' = dstWritten \cup {4 * i + 3}
    /\ i' = i + 1
    /\ pc' = "PA_110"
    /\ UNCHANGED <<selection, arguments, j, alpha, iterations>>

(***************************************************************************)
(* _PremultiplyAlphaFloat<T>(src, numTexels, dst), lines 138-161.         *)
(***************************************************************************)
\* typedSrc[4 * i + j] * alpha, converted to T
MultiplyByAlpha(T, c, al) == FMulNum(c, al, Precision(T))

PAF_149 ==
    /\ pc = "PAF_149"
    /\ i' = 0
    /\ pc' = "PAF_152"
    /\ UNCHANGED <<selection, arguments, mem, j, alpha, srcRead, dstWritten, iterations>>

PAF_152 ==
    /\ pc = "PAF_152"
    /\ IF i < numTexels
       THEN pc' = "PAF_153" /\ iterations' = iterations + 1
       ELSE pc' = "returned" /\ UNCHANGED iterations
    /\ UNCHANGED <<selection, arguments, mem, i, j, alpha, srcRead, dstWritten>>

\* const T alpha = typedSrc[4 * i + 3];
PAF_153 ==
    /\ pc = "PAF_153"
    /\ alpha' = Load(mem, src + 4 * i + 3)
    /\ srcRead' = srcRead \cup {4 * i + 3}
    /\ j' = 0
    /\ pc' = "PAF_156"
    /\ UNCHANGED <<selection, arguments, mem, i, dstWritten, iterations>>

\* for (size_t j = 0; j < 3; j++) {
\*     typedDst[4 * i + j] = typedSrc[4 * i + j] * alpha; }
PAF_156 ==
    /\ pc = "PAF_156"
    /\ j < 3
    /\ mem' = Store(mem, dst + 4 * i + j,
                    MultiplyByAlpha(ElemType, Load(mem, src + 4 * i + j), alpha))
    /\ srcRead' = srcRead \cup {4 * i + j}
    /\ dstWritten' = dstWritten \cup {4 * i + j}
    /\ j' = j + 1
    /\ pc' = IF j + 1 < 3 THEN "PAF_156" ELSE "PAF_159"
    /\ UNCHANGED <<selection, arguments, i, alpha, iterations>>

\* typedDst[4 * i + 3] = typedSrc[4 * i + 3];  and i++
PAF_159 ==
    /\ pc = "PAF_159"
    /\ mem' = Store(mem, dst + 4 * i + 3, Load(mem, src + 4 * i + 3))
    /\ srcRead' = srcRead \cup {4 * i + 3}
    /\ dstWritten' = dstWritten \cup {4 * i + 3}
    /\ i' = i + 1
    /\ pc' = "PAF_152"
    /\ UNCHANGED <<selection, arguments, j, alpha, iterations>>

Next ==
    \/ GetHgiFormat
    \/ Invoke
    \/ InvokeInPlace
    \/ RGBA_54 \/ RGBA_56 \/ RGBA_57 \/ RGBA_58 \/ RGBA_59 \/ RGBA_60
    \/ PA_104 \/ PA_110 \/ PA_111 \/ PA_113 \/ PA_133
    \/ PAF_149 \/ PAF_152 \/ PAF_153 \/ PAF_156 \/ PAF_159

Spec == Init /\ [][Next]_vars

(***************************************************************************)
(* One texel of unsigned char through _PremultiplyAlpha<unsigned char,     *)
(* false>, for every colour value and every alpha value.                   *)
(***************************************************************************)
InitTexel8 ==
    /\ hioFormat = "HioFormatUNorm8Vec4"
    /\ premultiplyAlpha = TRUE
    /\ avoidThreeComponentFormats = FALSE
    /\ LET r == GetHgiFormatResult(hioFormat, premultiplyAlpha,
                                   avoidThreeComponentFormats, CallerSlot)
       IN  /\ hgiFormat = r.format
           /\ conversionFunction = r.conversionFunction
           /\ diagnostic = r.diagnostic
    /\ \E c \in 0..255, a \in 0..255 :
          mem = Heap("unsigned char",
                     TexelElems("unsigned char", <<c, (c + 129) % 256, 0, a>>), 1)
    /\ orig = mem
    /\ numTexels = 1
    /\ src = 0 /\ dst = 4
    /\ ubValue = 0
    /\ call = 1
    /\ pc = EntryLabel(conversionFunction)
    /\ i = 0 /\ j = 0 /\ alpha = FZero
    /\ srcRead = {} /\ dstWritten = {}
    /\ iterations = 0

NextTexel8 == PA_104 \/ PA_110 \/ PA_111 \/ PA_113 \/ PA_133

SpecTexel8 == InitTexel8 /\ [][NextTexel8]_vars

(***************************************************************************)
(* Properties.                                                             *)
(***************************************************************************)
Converting == conversionFunction.fn = "_ConvertRGBToRGBA" /\ call > 0

Premultiplying ==
    conversionFunction.fn \in {"_PremultiplyAlpha", "_PremultiplyAlphaFloat"} /\ call > 0

Texels == 0..(numTexels - 1)

\* The fully opaque value of the element type: the maximum of an integer
\* type, 1.0 for a floating-point type.
Opaque ==
    IF ElemType \in {"GfHalf", "float"}
    THEN [k |-> "num", s |-> 0, m |-> 8388608, e |-> -23]
    ELSE [k |-> "int",
          v |-> CASE ElemType = "unsigned char" -> 255
                  [] ElemType = "signed char"   -> 127
                  [] ElemType = "uint16_t"      -> 65535
                  [] ElemType = "int32_t"       -> 2147483647]

\* Texel t of the destination is texel t of the original source with the
\* opaque value appended.
Expanded(t) ==
    /\ \A c \in 0..2 : Load(mem, dst + 4 * t + c) = Load(orig, src + 3 * t + c)
    /\ Load(mem, dst + 4 * t + 3) = Opaque

\* C1: after _ConvertRGBToRGBA<T>(buf, n, buf) (dst = src), every texel i < n
\* of the buffer holds the three original elements of texel i followed by the
\* opaque value of T.
C1_InPlaceExpansion ==
    (Converting /\ pc = "returned" /\ dst = src) => \A t \in Texels : Expanded(t)

\* C2: after _ConvertRGBToRGBA<T>(src, n, dst) with dst not overlapping src,
\* every texel i < n of dst holds the three elements of texel i of src
\* followed by the opaque value of T (the maximum of an integer T, 1 for a
\* floating-point T), and no element of src has changed.
C2_SeparateExpansion ==
    (Converting /\ pc = "returned" /\ dst # src) =>
        /\ \A t \in Texels : Expanded(t)
        /\ \A n \in 0..(3 * numTexels - 1) : Load(mem, src + n) = Load(orig, src + n)

C2_Witness ==
    /\ Converting /\ pc = "returned" /\ dst # src
    /\ ElemType = "float" /\ numTexels = 1
    /\ \A c \in 0..2 : Load(orig, src + c) = IntToFloat(c + 1)
    /\ \A c \in 0..2 : Load(mem, dst + c) = IntToFloat(c + 1)
    /\ Load(mem, dst + 3) = IntToFloat(1)

\* C8: throughout _ConvertRGBToRGBA run with dst = src, no write clobbers a
\* source element that is still to be read: every source element not read
\* yet holds its original value.
C8_NoWriteBeforeRead ==
    (Converting /\ dst = src /\ pc \in {"RGBA_56", "RGBA_57", "RGBA_58", "RGBA_59", "RGBA_60"}) =>
        \A n \in 0..(3 * numTexels - 1) :
            n \notin srcRead => Load(mem, src + n) = Load(orig, src + n)

\* C10: _ConvertRGBToRGBA reads only source indices in [0, 3n), writes only
\* destination indices in [0, 4n), enters its loop body exactly n times and
\* then returns; for n = 0 the counter wraps past zero and no element is
\* read or written.
C10_ExpansionBounds ==
    Converting =>
        /\ srcRead \subseteq 0..(3 * numTexels - 1)
        /\ dstWritten \subseteq 0..(4 * numTexels - 1)
        /\ iterations <= numTexels
        /\ call = 1 =>
              \A a \in 0..(Len(mem) - 1) :
                  (a - dst) \notin dstWritten => Load(mem, a) = Load(orig, a)
        /\ pc = "returned" =>
              /\ iterations = numTexels
              /\ i = SizeModulus - 1
              /\ srcRead = 0..(3 * numTexels - 1)
              /\ dstWritten = 0..(4 * numTexels - 1)
              /\ numTexels = 0 => mem = orig

C10_Witness ==
    /\ Converting /\ pc = "returned"
    /\ numTexels = 0 /\ iterations = 0
    /\ i = SizeModulus - 1
    /\ srcRead = {} /\ dstWritten = {}

Selected == pc # "start"

\* The channel-expansion routine of element type t.
Expansion(t) == [fn |-> "_ConvertRGBToRGBA", T |-> t, isSRGB |-> FALSE]

NoTransformation == [fn |-> "nullptr", T |-> "void", isSRGB |-> FALSE]

\* The 3-channel sources that are always expanded:
\* <<source, 4-channel target, element type>>.
NormalizedVec3 ==
    { <<"HioFormatUNorm8Vec3", "HgiFormatUNorm8Vec4", "unsigned char">>,
      <<"HioFormatSNorm8Vec3", "HgiFormatSNorm8Vec4", "signed char">>,
      <<"HioFormatUNorm8Vec3srgb", "HgiFormatUNorm8Vec4srgb", "unsigned char">> }

\* The 3-channel sources expanded on request:
\* <<source, 3-channel target, 4-channel target, element type>>.
FloatIntVec3 ==
    { <<"HioFormatFloat16Vec3", "HgiFormatFloat16Vec3", "HgiFormatFloat16Vec4", "GfHalf">>,
      <<"HioFormatFloat32Vec3", "HgiFormatFloat32Vec3", "HgiFormatFloat32Vec4", "float">>,
      <<"HioFormatUInt16Vec3", "HgiFormatUInt16Vec3", "HgiFormatUInt16Vec4", "uint16_t">>,
      <<"HioFormatInt32Vec3", "HgiFormatInt32Vec3", "HgiFormatInt32Vec4", "int32_t">> }

\* C3: a normalized-integer 3-channel source gets its 4-channel target and
\* the expansion routine of its element type whatever the flags; a float/int
\* 3-channel source gets them exactly when avoidThreeComponentFormats is
\* set, and otherwise its 3-channel target and no transformation;
\* premultiplyAlpha changes neither.
C3_ThreeChannelPolicy ==
    Selected =>
        /\ \A f \in NormalizedVec3 :
              hioFormat = f[1] =>
                  hgiFormat = f[2] /\ conversionFunction = Expansion(f[3])
        /\ \A f \in FloatIntVec3 :
              hioFormat = f[1] =>
                  IF avoidThreeComponentFormats
                  THEN hgiFormat = f[3] /\ conversionFunction = Expansion(f[4])
                  ELSE hgiFormat = f[2] /\ conversionFunction = NoTransformation

C3_Witness ==
    /\ pc = "selected"
    /\ hioFormat = "HioFormatFloat32Vec3"
    /\ premultiplyAlpha /\ ~avoidThreeComponentFormats
    /\ hgiFormat = "HgiFormatFloat32Vec3"
    /\ conversionFunction = NoTransformation

\* The uncompressed supported 4-channel sources and their targets.
SupportedVec4 ==
    { <<"HioFormatUNorm8Vec4", "HgiFormatUNorm8Vec4">>,
      <<"HioFormatSNorm8Vec4", "HgiFormatSNorm8Vec4">>,
      <<"HioFormatFloat16Vec4", "HgiFormatFloat16Vec4">>,
      <<"HioFormatFloat32Vec4", "HgiFormatFloat32Vec4">>,
      <<"HioFormatUInt16Vec4", "HgiFormatUInt16Vec4">>,
      <<"HioFormatInt32Vec4", "HgiFormatInt32Vec4">>,
      <<"HioFormatUNorm8Vec4srgb", "HgiFormatUNorm8Vec4srgb">> }

BlockCompressed ==
    { "HioFormatBC6FloatVec3", "HioFormatBC6UFloatVec3", "HioFormatBC7UNorm8Vec4",
      "HioFormatBC7UNorm8Vec4srgb", "HioFormatBC1UNorm8Vec4", "HioFormatBC3UNorm8Vec4" }

\* Every source format with four channels.
AnyVec4 ==
    { f[1] : f \in SupportedVec4 } \cup
    { "HioFormatDouble64Vec4", "HioFormatInt16Vec4", "HioFormatUInt32Vec4",
      "HioFormatBC7UNorm8Vec4", "HioFormatBC7UNorm8Vec4srgb", "HioFormatBC1UNorm8Vec4",
      "HioFormatBC3UNorm8Vec4" }

PremultiplySelected ==
    conversionFunction.fn \in {"_PremultiplyAlpha", "_PremultiplyAlphaFloat"}

\* C4: a premultiply routine is selected if and only if premultiplyAlpha is
\* set and the source is an uncompressed supported 4-channel format, the
\* target then being its 4-channel counterpart; the sRGB-aware variant is
\* selected only for UNorm8Vec4srgb; a block-compressed source gets no
\* transformation; a 4-channel source never gets the expansion routine.
C4_PremultiplySelection ==
    Selected =>
        /\ PremultiplySelected <=>
              (premultiplyAlpha /\ hioFormat \in { f[1] : f \in SupportedVec4 })
        /\ PremultiplySelected => <<hioFormat, hgiFormat>> \in SupportedVec4
        /\ conversionFunction.isSRGB => hioFormat = "HioFormatUNorm8Vec4srgb"
        /\ hioFormat \in BlockCompressed => conversionFunction = NoTransformation
        /\ hioFormat \in AnyVec4 => conversionFunction.fn # "_ConvertRGBToRGBA"

C4_Witness ==
    /\ pc = "selected"
    /\ hioFormat = "HioFormatUNorm8Vec4srgb"
    /\ premultiplyAlpha
    /\ hgiFormat = "HgiFormatUNorm8Vec4srgb"
    /\ conversionFunction.fn = "_PremultiplyAlpha" /\ conversionFunction.isSRGB

Unsupported ==
    { "HioFormatDouble64", "HioFormatDouble64Vec2", "HioFormatDouble64Vec3",
      "HioFormatDouble64Vec4",
      "HioFormatInt16", "HioFormatInt16Vec2", "HioFormatInt16Vec3", "HioFormatInt16Vec4",
      "HioFormatUInt32", "HioFormatUInt32Vec2", "HioFormatUInt32Vec3", "HioFormatUInt32Vec4",
      "HioFormatUNorm8srgb", "HioFormatUNorm8Vec2srgb" }

\* C5: for every unsupported source format and every combination of the two
\* flags, GetHgiFormat returns HgiFormatInvalid and the caller is left with
\* no transformation.
C5_UnsupportedFormats ==
    (Selected /\ hioFormat \in Unsupported) =>
        hgiFormat = "HgiFormatInvalid" /\ conversionFunction = NoTransformation

C5_Witness ==
    /\ pc = "selected"
    /\ hioFormat = "HioFormatDouble64Vec4"
    /\ premultiplyAlpha /\ avoidThreeComponentFormats
    /\ hgiFormat = "HgiFormatInvalid"
    /\ diagnostic = "TF_WARN"

\* C6: a premultiply routine run in place (dst = src) leaves every alpha
\* element as it was, and leaves the buffer equal to what the same routine
\* wrote into a separate destination from the same input.
C6_InPlacePremultiply ==
    (Premultiplying /\ pc = "returned" /\ dst = src) =>
        /\ \A t \in Texels : Load(mem, src + 4 * t + 3) = Load(orig, src + 4 * t + 3)
        /\ call = 2 =>
              \A n \in 0..(4 * numTexels - 1) :
                  Load(mem, src + n) = Load(mem, 4 * numTexels + n)

C6_Witness ==
    /\ Premultiplying /\ pc = "returned" /\ dst = src /\ call = 2
    /\ conversionFunction.fn = "_PremultiplyAlpha"
    /\ numTexels = 2
    /\ \E n \in 0..(4 * numTexels - 1) : Load(mem, src + n) # Load(orig, src + n)

\* C7: _PremultiplyAlpha<unsigned char, false> turns a texel (c0, c1, c2, a)
\* of values in 0..255 into colour elements c * a / 255 rounded by adding
\* 0.5 and truncating, each within 1 of the exact c * a / 255 and 0 for
\* c = 0, and into the alpha element a.
C7_UInt8Premultiply ==
    (pc = "returned" /\ conversionFunction.fn = "_PremultiplyAlpha"
        /\ ElemType = "unsigned char" /\ ~conversionFunction.isSRGB) =>
        \A t \in Texels :
            LET a == Load(orig, src + 4 * t + 3).v IN
            /\ \A c \in 0..2 :
                  LET in  == Load(orig, src + 4 * t + c).v
                      out == Load(mem, dst + 4 * t + c).v
                  IN  /\ out = (2 * in * a + 255) \div 510
                      /\ 255 * out - in * a <= 255
                      /\ in * a - 255 * out <= 255
                      /\ in = 0 => out = 0
            /\ Load(mem, dst + 4 * t + 3).v = a

C7_Witness ==
    /\ pc = "returned"
    /\ conversionFunction.fn = "_PremultiplyAlpha" /\ ~conversionFunction.isSRGB
    /\ [c \in 0..3 |-> Load(orig, src + c).v] = [c \in 0..3 |-> <<255, 128, 0, 128>>[c + 1]]
    /\ [c \in 0..3 |-> Load(mem, dst + c).v] = [c \in 0..3 |-> <<128, 64, 0, 128>>[c + 1]]

\* The float x lies in [0, 1].
InUnitInterval(x) ==
    /\ x.k = "num"
    /\ x.m = 0 \/ (x.s = 0 /\ (x.e < -23 \/ (x.e = -23 /\ x.m = 8388608)))

\* The float x is at most num / den in magnitude (1 <= num / den < 2).
MagnitudeAtMost(x, num, den) ==
    x.m = 0 \/ x.e < -23 \/ (x.e = -23 /\ den * x.m <= num * 8388608)

AlphaComputed ==
    conversionFunction.fn = "_PremultiplyAlpha" /\ pc \in {"PA_113", "PA_133"}

\* C9 as claimed: in _PremultiplyAlpha, for every integer element type the
\* routine is handed out for and every value of the alpha element, the ratio
\* alpha = src.a / max(T) lies in [0, 1].
C9_RatioInUnitInterval == AlphaComputed => InUnitInterval(alpha)

\* C9 as amended: the ratio lies in [0, 1] exactly when the alpha element is
\* not negative, which is every alpha element of unsigned char and uint16_t;
\* a negative alpha element of signed char or int32_t gives a negative
\* ratio, of magnitude at most 128/127 for signed char and 1 for int32_t.
C9_RatioBySign ==
    AlphaComputed =>
        LET a == Load(mem, src + 4 * i + 3).v IN
        /\ ElemType \in {"unsigned char", "uint16_t"} => a >= 0
        /\ a >= 0 <=> InUnitInterval(alpha)
        /\ a < 0 =>
              /\ alpha.s = 1
              /\ IF ElemType = "signed char" THEN MagnitudeAtMost(alpha, 128, 127)
                 ELSE MagnitudeAtMost(alpha, 1, 1)

C9_Witness ==
    /\ AlphaComputed
    /\ ElemType = "signed char"
    /\ Load(mem, src + 4 * i + 3).v = -1
    /\ alpha.s = 1 /\ alpha.m # 0

=============================================================================
